---- MODULE Spec2Model ----
(***************************************************************************)
(* Model of the CRS recommender core (backend/recommender.py) and of the   *)
(* Flask request layer that calls it (backend/app.py).                      *)
(*                                                                         *)
(* Strings are sequences of tokens.  A token stands for a fixed piece of   *)
(* text: a word, a punctuation mark, one whitespace character, one of the  *)
(* filler phrases clean_text removes, or a run of several words ("w12" is  *)
(* twelve lower-case words separated by single spaces, "w58" fifty-eight).*)
(***************************************************************************)
EXTENDS Integers, Sequences, FiniteSets, TLC

VARIABLES
    pc,            \* position of the request / call being executed
    request,       \* JSON body received by recommend_api
    response,      \* what recommend_api answered
    query,         \* argument `query` of explain / get_explanation / get_related_topics
    time_minutes,  \* argument `time_minutes`
    metadatas,     \* get_explanation: results["metadatas"][0]
    mi,            \* get_explanation: index of the next meta of the bucketing loop
    sections,      \* get_explanation: stage -> list of cleaned summaries
    seen,          \* get_explanation: dedup keys already placed
    used_words,    \* get_explanation: words emitted so far, all stages
    output,        \* get_explanation: the sections emitted so far
    si,            \* get_explanation: index in STAGE_ORDER of the next stage
    explanation,   \* value returned by get_explanation
    results,       \* get_related_topics: results["metadatas"][0]
    ri,            \* get_related_topics: index of the next match of phase 1
    ranked,        \* get_related_topics: the result list
    seen_topics,   \* get_related_topics: its local `seen`
    all_topics,    \* get_related_topics: shuffled topics not yet iterated
    related,       \* value returned by get_related_topics
    exc,           \* the exception raised, "none" while there is none
    cc,            \* concurrent requests: the locals of each request's call
    rng            \* state of the generator behind the module-level random.*

vars == <<pc, request, response, query, time_minutes, metadatas, mi, sections,
          seen, used_words, output, si, explanation, results, ri, ranked,
          seen_topics, all_topics, related, exc, cc, rng>>

geVars == <<metadatas, mi, sections, seen, used_words, output, si, explanation>>
rtVars == <<results, ri, ranked, seen_topics, all_topics, related>>
apiVars == <<request, response>>
ccVars == <<cc, rng>>
soloVars == <<pc, query, time_minutes, geVars, rtVars, apiVars, exc>>

-----------------------------------------------------------------------------
(* Configuration constants of recommender.py *)

WORDS_PER_MIN == 120
MAX_RELATED_TILES == 12

\* "working" and "formulas" exchanged
STAGE_ORDER_Swapped ==
    << "definition", "types", "construction", "formulas", "working",
       "applications", "advantages", "disadvantages", "general" >>

STAGE_ORDER ==
    << "definition", "types", "construction", "working", "formulas",
       "applications", "advantages", "disadvantages", "general" >>

KnownStages == { STAGE_ORDER[i] : i \in 1..Len(STAGE_ORDER) }

STAGE_TITLES ==
    [ definition    |-> <<"Definition">>,
      types         |-> <<"Types">>,
      construction  |-> <<"Construction", " ", "/", " ", "Structure">>,
      working       |-> <<"Working", " ", "Principle">>,
      formulas      |-> <<"Key", " ", "Formulas">>,
      applications  |-> <<"Applications">>,
      advantages    |-> <<"Advantages">>,
      disadvantages |-> <<"Limitations">>,
      general       |-> <<"Additional", " ", "Notes">> ]

\* STAGE_WEIGHT in hundredths (0.12 -> 12)
STAGE_WEIGHT ==
    [ definition |-> 12, types |-> 12, construction |-> 14, working |-> 20,
      formulas |-> 14, applications |-> 14, advantages |-> 7,
      disadvantages |-> 7, general |-> 10 ]

-----------------------------------------------------------------------------
(* Text: token tables *)

NL == "\n"

Whitespace == { " ", NL }

\* lower-case form, capitalised form
CaseTable ==
    { <<"diode", "Diode">>, <<"bjt", "Bjt">>, <<"scr", "Scr">>,
      <<"led", "Led">>, <<"ujt", "Ujt">>, <<"zener", "Zener">>,
      <<"aside", "Aside">>, <<"w12", "W12">>, <<"w58", "W58">>,
      <<"summary", "Summary">>, <<"unfortunately", "Unfortunately">>,
      <<"mosfet", "Mosfet">>, <<"jfet", "Jfet">>, <<"triac", "Triac">>,
      <<"diac", "Diac">>, <<"igbt", "Igbt">>, <<"opamp", "Opamp">>,
      <<"relay", "Relay">>, <<"fuse", "Fuse">>, <<"amp", "Amp">> }

LowerMap == [ t \in { p[2] : p \in CaseTable } |->
                 (CHOOSE p \in CaseTable : p[2] = t)[1] ]

CapMap == [ t \in { p[1] : p \in CaseTable } |->
               (CHOOSE p \in CaseTable : p[1] = t)[2] ]

\* str.lower() on one token
LowerTok(t) == IF t \in DOMAIN LowerMap THEN LowerMap[t] ELSE t

\* first character upper-cased, on one (lower-case) token
CapTok(t) == IF t \in DOMAIN CapMap THEN CapMap[t] ELSE t

\* tokens made of [a-z0-9] only, once lower-cased
AlnumTokens == { p[1] : p \in CaseTable }

\* number of words a token holds
TokWords(t) ==
    CASE t \in {"w12", "W12"} -> 12
      [] t \in {"w58", "W58"} -> 58
      [] OTHER -> 1

garbage ==
    { "here's a", "here is a", "4-5 line", "for revision", "summary",
      "unfortunately", "the given text", "i can provide" }

-----------------------------------------------------------------------------
(* Text: string operations *)

\* str.lower()
Lower(s) == [ i \in 1..Len(s) |-> LowerTok(s[i]) ]

RECURSIVE Strip(_)
Strip(s) ==
    IF s = <<>> THEN <<>>
    ELSE IF Head(s) \in Whitespace THEN Strip(Tail(s))
    ELSE IF s[Len(s)] \in Whitespace THEN Strip(SubSeq(s, 1, Len(s) - 1))
    ELSE s

\* re.sub(r"\(.*?\)", "", text): "(" up to the nearest ")" on the same line
RECURSIVE RemoveParens(_)
RemoveParens(s) ==
    IF s = <<>> THEN <<>>
    ELSE LET closes == { j \in 2..Len(s) :
                           /\ s[j] = ")"
                           /\ \A k \in 2..(j - 1) : s[k] # NL }
         IN  IF Head(s) = "(" /\ closes # {}
             THEN LET j == CHOOSE c \in closes : \A d \in closes : c <= d
                  IN  RemoveParens(SubSeq(s, j + 1, Len(s)))
             ELSE <<Head(s)>> \o RemoveParens(Tail(s))

\* re.sub(r"\s+", " ", text)
RECURSIVE CollapseWs(_)
CollapseWs(s) ==
    IF s = <<>> THEN <<>>
    ELSE IF Head(s) \in Whitespace
         THEN IF Len(s) > 1 /\ s[2] \in Whitespace
              THEN CollapseWs(Tail(s))
              ELSE <<" ">> \o CollapseWs(Tail(s))
         ELSE <<Head(s)>> \o CollapseWs(Tail(s))

\* str.capitalize() of an already lower-case string
Capitalize(s) ==
    IF s = <<>> THEN <<>> ELSE <<CapTok(Head(s))>> \o Tail(s)

\* len(line.split())
Words(s) ==
    LET starts == { i \in 1..Len(s) :
                      /\ s[i] \notin Whitespace
                      /\ (i = 1 \/ s[i - 1] \in Whitespace) }
        RECURSIVE Extra(_)
        Extra(i) == IF i = 0 THEN 0
                    ELSE Extra(i - 1) +
                         (IF s[i] \in Whitespace THEN 0 ELSE TokWords(s[i]) - 1)
    IN  Cardinality(starts) + Extra(Len(s))

\* Python values that can sit under a metadata key
Str(s) == [ type |-> "str", val |-> s ]
None == [ type |-> "NoneType" ]
PyInt(n) == [ type |-> "int", val |-> n ]

\* the type test replaced by a conversion: text = str(text)
clean_text_Stringified(text) ==
    LET val == IF text.type = "str" THEN text.val ELSE <<"None">>
        lowered  == Lower(val)
        stripped == SelectSeq(lowered, LAMBDA t : t \notin garbage)
        noparens == RemoveParens(stripped)
        collapsed == CollapseWs(noparens)
    IN  Capitalize(Strip(collapsed))

clean_text(text) ==
    IF text.type # "str" THEN <<>>
    ELSE LET lowered  == Lower(text.val)
             stripped == SelectSeq(lowered, LAMBDA t : t \notin garbage)
             noparens == RemoveParens(stripped)
             collapsed == CollapseWs(noparens)
         IN  Capitalize(Strip(collapsed))

normalize(s) ==
    Strip(SelectSeq(Lower(s), LAMBDA t : t \in AlnumTokens \cup {" "}))

\* dict.get(key, default)
Get(meta, key, default) ==
    IF key \in DOMAIN meta THEN meta[key] ELSE default

-----------------------------------------------------------------------------
(* Inputs *)

MaxMatches == 3      \* longest match list the index returns to get_explanation
MaxTime == 1         \* largest time_minutes

SeqsUpTo(S, n) == UNION { [1..k -> S] : k \in 0..n }

\* chunk metadata held by the index, as get_explanation reads it; the
\* summaries clean to 1, 13, 60, 59, 61, 1 and 1 words and to nothing
ExplainCorpus ==
    { [stage |-> "working",    summary |-> Str(<<"Diode", ".">>)],
      [stage |-> "working",
       summary |-> Str(<<"bjt", " ", "(", "aside", ")", " ", "w12">>)],
      [stage |-> "working",
       summary |-> Str(<<"scr", " ", "w58", " ", "scr">>)],
      [stage |-> "formulas",   summary |-> Str(<<"led", " ", "w58">>)],
      [stage |-> "applications",
       summary |-> Str(<<"ujt", " ", "w58", " ", "ujt", " ", "ujt">>)],
      [stage |-> "introduction", summary |-> Str(<<"diode">>)],
      [summary |-> Str(<<"Summary", " ", "diode">>)],
      [stage |-> "general",    summary |-> None],
      [stage |-> "types",      summary |-> PyInt(5)],
      [stage |-> "advantages", summary |-> Str(<<"Unfortunately", NL>>)],
      [topic |-> <<"scr">>] }

ExplainBatches == SeqsUpTo(ExplainCorpus, MaxMatches)

TimeInputs == {-1, 0} \cup 1..MaxTime

ExplainQueries == { <<"zener", " ", "diode">> }

-----------------------------------------------------------------------------
(* get_explanation *)

max_words == time_minutes * WORDS_PER_MIN

\* int(x / 100): Python's int() truncates toward zero
IntHundredths(x) == IF x >= 0 THEN x \div 100 ELSE -((-x) \div 100)

\* int(max_words * STAGE_WEIGHT.get(stage, 0.1))
StageBudget(maxw, stage) ==
    IntHundredths(maxw * (IF stage \in DOMAIN STAGE_WEIGHT
                          THEN STAGE_WEIGHT[stage] ELSE 10))

\* meta.get("stage", "general")
MetaStage(meta) == Get(meta, "stage", "general")

\* clean_text(meta.get("summary", ""))
MetaSummary(meta) == clean_text(Get(meta, "summary", Str(<<>>)))

\* the dedup test dropped: every non-empty summary is placed
IsDuplicate_Never(key, seenKeys) == FALSE

\* `if key in seen: continue`
IsDuplicate(key, seenKeys) == key \in seenKeys

\* sections.setdefault(stage, []).append(summary)
SetDefaultAppend(secs, stage, summary) ==
    IF stage \in DOMAIN secs
    THEN [secs EXCEPT ![stage] = Append(@, summary)]
    ELSE secs @@ (stage :> <<summary>>)

\* the stage budget forgotten: only the global budget ends a stage
LineBreak_GlobalOnly(stage_words, stage_budget, used, maxw) == used >= maxw

\* the break test of the line loop
LineBreak(stage_words, stage_budget, used, maxw) ==
    stage_words >= stage_budget \/ used >= maxw

\* the inner `for line in lines` loop, from line i on
RECURSIVE LineLoop(_, _, _, _, _, _, _)
LineLoop(lines, i, paragraph, stage_words, used, stage_budget, maxw) ==
    IF i > Len(lines)
    THEN [paragraph |-> paragraph, stage_words |-> stage_words, used_words |-> used]
    ELSE LET w  == Words(lines[i])
             p2 == Append(paragraph, lines[i])
             s2 == stage_words + w
             u2 == used + w
         IN  IF LineBreak(s2, stage_budget, u2, maxw)
             THEN [paragraph |-> p2, stage_words |-> s2, used_words |-> u2]
             ELSE LineLoop(lines, i + 1, p2, s2, u2, stage_budget, maxw)

\* the stage loop never ends early
StageLoopBreak_Never(used, maxw) == FALSE

\* the break test of the stage loop
StageLoopBreak(used, maxw) == used >= maxw

\* " ".join(paragraph)
RECURSIVE JoinWith(_, _)
JoinWith(strs, sep) ==
    IF strs = <<>> THEN <<>>
    ELSE IF Len(strs) = 1 THEN strs[1]
    ELSE strs[1] \o sep \o JoinWith(Tail(strs), sep)

\* the two strings appended to output for one stage
SectionStrings(sec) ==
    << <<NL>> \o STAGE_TITLES[sec.stage] \o <<":", NL>>,
       JoinWith(sec.paragraph, <<" ">>) \o <<NL>> >>

RECURSIVE OutputStrings(_)
OutputStrings(out) ==
    IF out = <<>> THEN <<>>
    ELSE SectionStrings(Head(out)) \o OutputStrings(Tail(out))

FallbackText(q) ==
    q \o <<" ", "is", " ", "an", " ", "important", " ", "electronics", " ",
           "topic", ".">>

\* the fallback forgotten: an empty output joins to the empty string
ExplanationText_NoFallback(q, out) ==
    Strip(JoinWith(OutputStrings(out), <<NL>>))

\* the return statements of get_explanation
ExplanationText(q, out) ==
    IF out = <<>> THEN FallbackText(q)
    ELSE Strip(JoinWith(OutputStrings(out), <<NL>>))

GEEmbed ==
    /\ pc = "ge_embed"
    /\ \/ pc' = "ge_query" /\ exc' = exc
       \/ pc' = "raised" /\ exc' = "embedding failed"
    /\ UNCHANGED <<query, time_minutes, geVars, rtVars, apiVars>>
    /\ UNCHANGED ccVars

GEQuery(batches) ==
    /\ pc = "ge_query"
    /\ \/ /\ \E b \in batches : metadatas' = b
          /\ sections' = [ k \in KnownStages |-> <<>> ]
          /\ seen' = {}
          /\ used_words' = 0
          /\ mi' = 1
          /\ pc' = "ge_bucket"
          /\ exc' = exc
       \/ /\ pc' = "raised"
          /\ exc' = "index query failed"
          /\ UNCHANGED <<metadatas, sections, seen, used_words, mi>>
    /\ UNCHANGED <<query, time_minutes, output, si, explanation, rtVars, apiVars>>
    /\ UNCHANGED ccVars

\* one iteration of `for meta in metadatas`
GEBucket ==
    /\ pc = "ge_bucket"
    /\ mi <= Len(metadatas)
    /\ LET meta    == metadatas[mi]
           stage   == MetaStage(meta)
           summary == MetaSummary(meta)
           key     == normalize(summary)
       IN  IF summary = <<>> \/ IsDuplicate(key, seen)
           THEN UNCHANGED <<seen, sections>>
           ELSE /\ seen' = seen \cup {key}
                /\ sections' = SetDefaultAppend(sections, stage, summary)
    /\ mi' = mi + 1
    /\ UNCHANGED <<pc, query, time_minutes, metadatas, used_words, output, si,
                   explanation, rtVars, apiVars, exc>>
    /\ UNCHANGED ccVars

\* the bucketing loop is exhausted: `output = []`, the stage loop starts
GEBucketDone ==
    /\ pc = "ge_bucket"
    /\ mi > Len(metadatas)
    /\ output' = <<>>
    /\ si' = 1
    /\ pc' = "ge_stage"
    /\ UNCHANGED <<query, time_minutes, metadatas, mi, sections, seen, used_words,
                   explanation, rtVars, apiVars, exc>>
    /\ UNCHANGED ccVars

\* one iteration of `for stage in STAGE_ORDER` whose bucket is empty
GEStageSkip ==
    /\ pc = "ge_stage"
    /\ Get(sections, STAGE_ORDER[si], <<>>) = <<>>
    /\ IF si = Len(STAGE_ORDER)
       THEN pc' = "ge_return" /\ si' = si
       ELSE pc' = pc /\ si' = si + 1
    /\ UNCHANGED <<query, time_minutes, metadatas, mi, sections, seen, used_words,
                   output, explanation, rtVars, apiVars, exc>>
    /\ UNCHANGED ccVars

\* one iteration of `for stage in STAGE_ORDER` whose bucket holds lines
GEStageEmit ==
    /\ pc = "ge_stage"
    /\ LET stage == STAGE_ORDER[si]
           lines == Get(sections, stage, <<>>)
           r     == LineLoop(lines, 1, <<>>, 0, used_words,
                             StageBudget(max_words, stage), max_words)
       IN  /\ lines # <<>>
           /\ used_words' = r.used_words
           /\ output' = IF r.paragraph # <<>>
                        THEN Append(output, [stage |-> stage, paragraph |-> r.paragraph])
                        ELSE output
           /\ IF StageLoopBreak(r.used_words, max_words) \/ si = Len(STAGE_ORDER)
              THEN pc' = "ge_return" /\ si' = si
              ELSE pc' = pc /\ si' = si + 1
    /\ UNCHANGED <<query, time_minutes, metadatas, mi, sections, seen,
                   explanation, rtVars, apiVars, exc>>
    /\ UNCHANGED ccVars

GEReturn ==
    /\ pc = "ge_return"
    /\ explanation' = ExplanationText(query, output)
    /\ pc' = "ge_done"
    /\ UNCHANGED <<query, time_minutes, metadatas, mi, sections, seen, used_words,
                   output, si, rtVars, apiVars, exc>>
    /\ UNCHANGED ccVars

NoText == <<>>
NoRequest == [ kind |-> "none" ]
NoResponse == [ status |-> 0 ]

\* the locals of the three functions before they are called
GEIdle ==
    /\ metadatas = <<>> /\ mi = 1
    /\ sections = [ k \in KnownStages |-> <<>> ]
    /\ seen = {} /\ used_words = 0 /\ output = <<>> /\ si = 1
    /\ explanation = NoText

RTIdle ==
    /\ results = <<>> /\ ri = 1 /\ ranked = <<>> /\ seen_topics = {}
    /\ all_topics = {} /\ related = <<>>

ApiIdle ==
    /\ request = NoRequest /\ response = NoResponse

NumRequests == 2    \* requests served at the same time

Requests == 1..NumRequests

\* a request that has not called get_related_topics yet
IdleLocals ==
    [ pc |-> "idle", query |-> <<>>, results |-> <<>>, ranked |-> <<>>,
      seen |-> {}, all_topics |-> <<>>, i |-> 0 ]

\* the generator as the import of `random` leaves it
RngSeed == 0

CCIdle ==
    /\ cc = [ r \in Requests |-> IdleLocals ]
    /\ rng = RngSeed

InitExplain ==
    /\ pc = "ge_embed"
    /\ query \in ExplainQueries
    /\ time_minutes \in TimeInputs
    /\ GEIdle /\ RTIdle /\ ApiIdle /\ CCIdle
    /\ exc = "none"

NextExplain ==
    \/ GEEmbed
    \/ GEQuery(ExplainBatches)
    \/ GEBucket
    \/ GEBucketDone
    \/ GEStageSkip
    \/ GEStageEmit
    \/ GEReturn

SpecExplain == InitExplain /\ [][NextExplain]_vars

-----------------------------------------------------------------------------
(* Properties of get_explanation, checked under SpecExplain *)

InAssembler == pc \in {"ge_bucket", "ge_stage", "ge_return", "ge_done"}

SummaryOf(j) == MetaSummary(metadatas[j])
KeyOf(j) == normalize(SummaryOf(j))

\* match j is the first one of the batch that registers its dedup key
FirstOfKey(j) ==
    /\ SummaryOf(j) # <<>>
    /\ \A i \in 1..(j - 1) : SummaryOf(i) = <<>> \/ KeyOf(i) # KeyOf(j)

InBucket(stage, s) ==
    /\ stage \in DOMAIN sections
    /\ \E k \in 1..Len(sections[stage]) : sections[stage][k] = s

BucketEntries ==
    UNION { { <<st, k>> : k \in 1..Len(sections[st]) } : st \in DOMAIN sections }

OutputEntries ==
    UNION { { <<n, k>> : k \in 1..Len(output[n].paragraph) } : n \in 1..Len(output) }

RECURSIVE SumWords(_, _)
SumWords(lines, k) ==
    IF k = 0 THEN 0 ELSE SumWords(lines, k - 1) + Words(lines[k])

RECURSIVE HeaderWords(_)
HeaderWords(out) ==
    IF out = <<>> THEN 0
    ELSE Words(SectionStrings(Head(out))[1]) + HeaderWords(Tail(out))

LastLine(out) ==
    LET p == out[Len(out)].paragraph IN p[Len(p)]

LongestLineWords(out) ==
    LET ws == { Words(out[e[1]].paragraph[e[2]]) : e \in OutputEntries }
    IN  IF ws = {} THEN 0 ELSE CHOOSE w \in ws : \A v \in ws : v <= w

\* C1 (as claimed): every processed match whose stage is missing or is not one
\* of the nine known stages, and whose cleaned summary is non-empty and not
\* seen before, has that summary in the "general" bucket.
C1_UnknownStageInGeneral ==
    InAssembler =>
        \A j \in 1..(mi - 1) :
            ( /\ Get(metadatas[j], "stage", "absent") \notin KnownStages
              /\ FirstOfKey(j) )
            => InBucket("general", SummaryOf(j))

\* C2 (as claimed): for time_minutes > 0 the word count of the returned text
\* is at most time_minutes * 120 plus the length of one emitted line (here the
\* longest one, the reading most favourable to the claim).
C2_TextWithinBudget ==
    (pc = "ge_done" /\ time_minutes > 0)
        => Words(explanation) <= time_minutes * 120 + LongestLineWords(output)

\* C2 (amended): for time_minutes > 0, when at least one section is emitted,
\* the words of the returned text that are not section-title words number at
\* most time_minutes * 120 plus the word length of the last emitted line.
C2_SummaryWordsWithinBudget ==
    (pc = "ge_done" /\ time_minutes > 0 /\ output # <<>>)
        => Words(explanation) - HeaderWords(output)
               <= time_minutes * 120 + Words(LastLine(output))

\* the global budget is reached by the last line of a third section
C2_Witness ==
    /\ pc = "ge_done" /\ time_minutes = 1 /\ Len(output) = 3
    /\ Words(explanation) - HeaderWords(output) > 120
    /\ Words(explanation) > 120 + LongestLineWords(output)

\* C3: at every point of the bucketing loop and after it, no two strings held
\* in the buckets (of any stages) share a dedup key, and no two lines of the
\* output share one: a summary is emitted at most once whatever the stages of
\* the matches that carry it.
C3_GlobalDedup ==
    InAssembler =>
        /\ \A a, b \in BucketEntries :
              a # b => normalize(sections[a[1]][a[2]]) # normalize(sections[b[1]][b[2]])
        /\ \A a, b \in OutputEntries :
              a # b => normalize(output[a[1]].paragraph[a[2]])
                          # normalize(output[b[1]].paragraph[b[2]])

\* two matches of different stages and different texts share a key; the first is emitted
C3_Witness ==
    /\ pc = "ge_done"
    /\ \E i, j \in 1..Len(metadatas) :
          /\ i < j
          /\ SummaryOf(i) # <<>> /\ SummaryOf(j) # <<>>
          /\ SummaryOf(i) # SummaryOf(j)
          /\ KeyOf(i) = KeyOf(j)
          /\ MetaStage(metadatas[i]) # MetaStage(metadatas[j])
          /\ \E e \in OutputEntries : output[e[1]].paragraph[e[2]] = SummaryOf(i)

\* the canonical stage order, as the claim lists it
CanonicalOrder ==
    << "definition", "types", "construction", "working", "formulas",
       "applications", "advantages", "disadvantages", "general" >>

CanonicalRank(stage) ==
    CHOOSE i \in 1..Len(CanonicalOrder) : CanonicalOrder[i] = stage

\* C5: the sections of the output are sections of known stages in strictly
\* ascending canonical order (hence at most one per stage), whatever the
\* order of the matches.
C5_CanonicalSectionOrder ==
    /\ \A n \in 1..Len(output) :
          \E i \in 1..Len(CanonicalOrder) : CanonicalOrder[i] = output[n].stage
    /\ \A n \in 1..(Len(output) - 1) :
          CanonicalRank(output[n].stage) < CanonicalRank(output[n + 1].stage)

\* two emitted sections whose matches arrived in the opposite order
C5_Witness ==
    /\ pc = "ge_done"
    /\ \E i, j \in 1..Len(metadatas), m, n \in 1..Len(output) :
          /\ i < j /\ n < m
          /\ MetaStage(metadatas[i]) = output[m].stage
          /\ MetaStage(metadatas[j]) = output[n].stage
          /\ SummaryOf(i) = output[m].paragraph[1]
          /\ SummaryOf(j) = output[n].paragraph[1]

\* floor(max_words * stage_weight), as the claim states the stage budget
ClaimedStageBudget(stage) ==
    (time_minutes * 120 * STAGE_WEIGHT[stage]) \div 100

\* C8: the lines emitted for a stage are a non-empty prefix of its bucket; no
\* line follows one that brought the stage to its budget; and the latest
\* stage stopped short of its bucket only because its budget or the global
\* budget was reached.
C8_StageStopsAtBudget ==
    \A n \in 1..Len(output) :
        LET p      == output[n].paragraph
            bucket == sections[output[n].stage]
        IN  /\ 1 <= Len(p) /\ Len(p) <= Len(bucket)
            /\ p = SubSeq(bucket, 1, Len(p))
            /\ \A k \in 1..(Len(p) - 1) :
                  SumWords(p, k) < ClaimedStageBudget(output[n].stage)
            /\ (n = Len(output) /\ Len(p) < Len(bucket))
                  => \/ SumWords(p, Len(p)) >= ClaimedStageBudget(output[n].stage)
                     \/ used_words >= time_minutes * 120

\* time_minutes = 1: the working section took two lines, reached 24 words and
\* left the rest of its bucket out
C8_Witness ==
    /\ pc = "ge_done" /\ time_minutes = 1
    /\ \E n \in 1..Len(output) :
          /\ output[n].stage = "working"
          /\ Len(output[n].paragraph) = 2
          /\ Len(sections["working"]) = 3
          /\ SumWords(output[n].paragraph, 1) < 24
          /\ SumWords(output[n].paragraph, 2) >= 24

-----------------------------------------------------------------------------
(* get_related_topics: inputs *)

MaxBatch == 3     \* longest match list drawn freely from RelatedCorpus
LongLen == 15     \* longest prefix of LongOrder the index returns

\* chunk metadata held by the index, as get_related_topics reads it
RelatedCorpus ==
    { [topic |-> <<"bjt", "_", "amp">>],
      [topic |-> <<"Bjt", " ", "amp">>],
      [topic |-> <<"diode">>],
      [topic |-> <<"scr">>],
      [topic |-> <<>>],
      [stage |-> "general"] }

\* a long relevance ordering: 15 distinct formatted topics, one topic twice
LongOrder ==
    << [topic |-> <<"diode">>], [topic |-> <<"bjt">>], [topic |-> <<"Diode">>],
       [topic |-> <<"scr">>], [topic |-> <<"led">>], [topic |-> <<"ujt">>],
       [topic |-> <<"zener">>], [topic |-> <<"mosfet">>], [topic |-> <<"jfet">>],
       [topic |-> <<"triac">>], [topic |-> <<"diac">>], [topic |-> <<"igbt">>],
       [topic |-> <<"opamp">>], [topic |-> <<"relay">>], [topic |-> <<"fuse">>],
       [topic |-> <<"amp">>] >>

LongQuery == <<"Diode">>

\* what the index may answer to the current query: any short list, and for
\* LongQuery also the long ones
RelatedBatches ==
    SeqsUpTo(RelatedCorpus, MaxBatch)
        \cup IF query = LongQuery
             THEN { SubSeq(LongOrder, 1, n) : n \in (MaxBatch + 1)..LongLen }
             ELSE {}

RelatedQueries ==
    { <<"bjt", " ", "amp">>, LongQuery, <<"zener", " ", "diode">> }

-----------------------------------------------------------------------------
(* get_related_topics *)

\* topic.replace("_", " ").title()
FormatTopic(topic) ==
    LET replaced == [ i \in 1..Len(topic) |->
                        IF topic[i] = "_" THEN " " ELSE topic[i] ]
    IN  [ i \in 1..Len(replaced) |-> CapTok(LowerTok(replaced[i])) ]

\* the comparison made case-sensitively
SameAsQuery_CaseSensitive(topic_clean, q) == topic_clean = q

\* topic_clean.lower() == query.lower()
SameAsQuery(topic_clean, q) == Lower(topic_clean) = Lower(q)

\* the relevance pass allowed the whole list
Phase1Break_FullCap(len) == len >= MAX_RELATED_TILES

\* len(ranked) >= MAX_RELATED_TILES // 2
Phase1Break(len) == len >= MAX_RELATED_TILES \div 2

\* off by one: the list may grow to 13
Phase2Break_Strict(len) == len > MAX_RELATED_TILES

\* len(ranked) >= MAX_RELATED_TILES
Phase2Break(len) == len >= MAX_RELATED_TILES

\* set(m["topic"] for m in results["metadatas"][0] if "topic" in m)
TopicSet(batch) ==
    { batch[i].topic : i \in { k \in 1..Len(batch) : "topic" \in DOMAIN batch[k] } }

\* the test of the exploration loop
Appendable(t, seenTopics, q) ==
    FormatTopic(t) \notin seenTopics /\ ~SameAsQuery(FormatTopic(t), q)

\* the exploration loop ends: the shuffled list is exhausted without another
\* append, or an iteration that appends nothing finds the cap reached
Phase2Ends ==
    \/ \A t \in all_topics : ~Appendable(t, seen_topics, query)
    \/ Phase2Break(Len(ranked))
         /\ \E t \in all_topics : ~Appendable(t, seen_topics, query)

RTEmbed ==
    /\ pc = "rt_embed"
    /\ \/ pc' = "rt_query" /\ exc' = exc
       \/ pc' = "raised" /\ exc' = "embedding failed"
    /\ UNCHANGED <<query, time_minutes, geVars, rtVars, apiVars>>
    /\ UNCHANGED ccVars

RTQuery(batches) ==
    /\ pc = "rt_query"
    /\ \/ /\ \E b \in batches : results' = b
          /\ ranked' = <<>>
          /\ seen_topics' = {}
          /\ ri' = 1
          /\ pc' = "rt_phase1"
          /\ exc' = exc
       \/ /\ pc' = "raised"
          /\ exc' = "index query failed"
          /\ UNCHANGED <<results, ranked, seen_topics, ri>>
    /\ UNCHANGED <<query, time_minutes, geVars, all_topics, related, apiVars>>
    /\ UNCHANGED ccVars

\* one iteration of the relevance loop
RTPhase1 ==
    /\ pc = "rt_phase1"
    /\ ri <= Len(results)
    /\ LET topic       == Get(results[ri], "topic", <<>>)
           topic_clean == FormatTopic(topic)
       IN  IF topic = <<>> \/ SameAsQuery(topic_clean, query)
           THEN /\ UNCHANGED <<ranked, seen_topics, pc>>
                /\ ri' = ri + 1
           ELSE /\ ranked' = IF topic_clean \notin seen_topics
                             THEN Append(ranked, topic_clean) ELSE ranked
                /\ seen_topics' = seen_topics \cup {topic_clean}
                /\ IF Phase1Break(Len(ranked'))
                   THEN pc' = "rt_collect" /\ ri' = ri
                   ELSE pc' = pc /\ ri' = ri + 1
    /\ UNCHANGED <<query, time_minutes, geVars, results, all_topics, related,
                   apiVars, exc>>
    /\ UNCHANGED ccVars

\* the relevance loop is exhausted
RTPhase1Done ==
    /\ pc = "rt_phase1"
    /\ ri > Len(results)
    /\ pc' = "rt_collect"
    /\ UNCHANGED <<query, time_minutes, geVars, rtVars, apiVars, exc>>
    /\ UNCHANGED ccVars

\* all_topics = list(set(...)); random.shuffle(all_topics): the order is
\* drawn as the exploration loop goes
RTCollect ==
    /\ pc = "rt_collect"
    /\ all_topics' = TopicSet(results)
    /\ pc' = "rt_phase2"
    /\ UNCHANGED <<query, time_minutes, geVars, results, ri, ranked, seen_topics,
                   related, apiVars, exc>>
    /\ UNCHANGED ccVars

\* the exploration loop up to and including its next append: t is the next
\* topic of the shuffled list that passes the test (the iterations before it
\* append nothing and change nothing but the loop position)
RTPhase2 ==
    /\ pc = "rt_phase2"
    /\ ~Phase2Ends
    /\ \E t \in all_topics :
          /\ Appendable(t, seen_topics, query)
          /\ ranked' = Append(ranked, FormatTopic(t))
          /\ seen_topics' = seen_topics \cup {FormatTopic(t)}
          /\ all_topics' = all_topics \ {t}
    /\ pc' = IF Phase2Break(Len(ranked')) THEN "rt_return" ELSE pc
    /\ UNCHANGED <<query, time_minutes, geVars, results, ri, related, apiVars, exc>>
    /\ UNCHANGED ccVars

RTPhase2Done ==
    /\ pc = "rt_phase2"
    /\ Phase2Ends
    /\ pc' = "rt_return"
    /\ UNCHANGED <<query, time_minutes, geVars, rtVars, apiVars, exc>>
    /\ UNCHANGED ccVars

RTReturn ==
    /\ pc = "rt_return"
    /\ related' = ranked
    /\ pc' = "rt_done"
    /\ UNCHANGED <<query, time_minutes, geVars, results, ri, ranked, seen_topics,
                   all_topics, apiVars, exc>>
    /\ UNCHANGED ccVars

InitRelated ==
    /\ pc = "rt_embed"
    /\ query \in RelatedQueries
    /\ time_minutes = 0
    /\ GEIdle /\ RTIdle /\ ApiIdle /\ CCIdle
    /\ exc = "none"

NextRelated ==
    \/ RTEmbed
    \/ RTQuery(RelatedBatches)
    \/ RTPhase1
    \/ RTPhase1Done
    \/ RTCollect
    \/ RTPhase2
    \/ RTPhase2Done
    \/ RTReturn

SpecRelated == InitRelated /\ [][NextRelated]_vars

-----------------------------------------------------------------------------
(* Properties of get_related_topics, checked under SpecRelated *)

InRanker == pc \in {"rt_phase1", "rt_collect", "rt_phase2", "rt_return", "rt_done"}

Range(f) == { f[i] : i \in DOMAIN f }

NoRepeats(f) == \A i, j \in DOMAIN f : i # j => f[i] # f[j]

Min(a, b) == IF a <= b THEN a ELSE b

\* the formatted topic of match i, when it carries a non-empty topic that is
\* not the query (case-insensitively)
HasEligibleTopic(i) ==
    /\ "topic" \in DOMAIN results[i]
    /\ results[i].topic # <<>>
    /\ Lower(FormatTopic(results[i].topic)) # Lower(query)

EligibleFormatted ==
    { FormatTopic(results[i].topic) :
          i \in { k \in 1..Len(results) : HasEligibleTopic(k) } }

FirstOccurrence(f) ==
    CHOOSE i \in 1..Len(results) :
        /\ HasEligibleTopic(i) /\ FormatTopic(results[i].topic) = f
        /\ \A k \in 1..(i - 1) :
              ~(HasEligibleTopic(k) /\ FormatTopic(results[k].topic) = f)

\* C4: the list built by get_related_topics, and the list it returns, (a) has
\* no entry equal to the query case-insensitively, (b) has at most 12 entries
\* and (c) has no entry twice.
C4_RelatedListInvariant ==
    /\ \A k \in 1..Len(ranked) : Lower(ranked[k]) # Lower(query)
    /\ Len(ranked) <= 12
    /\ NoRepeats(ranked)
    /\ pc = "rt_done" => related = ranked

\* a full list of 12, from a batch that holds the query's topic and a repeat
C4_Witness ==
    /\ pc = "rt_done" /\ Len(related) = 12
    /\ \A i \in 1..Len(results) : "topic" \in DOMAIN results[i]
    /\ \E i \in 1..Len(results) :
          Lower(FormatTopic(results[i].topic)) = Lower(query)
    /\ \E i, j \in 1..Len(results) :
          i < j /\ FormatTopic(results[i].topic) = FormatTopic(results[j].topic)

\* C9: when phase 1 is over, the result is the first up-to-6 distinct
\* formatted topics of the batch that are non-empty and not the query
\* (case-insensitively), in order of first occurrence.
C9_Phase1FirstSix ==
    pc = "rt_collect" =>
        /\ Len(ranked) = Min(6, Cardinality(EligibleFormatted))
        /\ \A k \in 1..Len(ranked) : ranked[k] \in EligibleFormatted
        /\ \A k \in 1..(Len(ranked) - 1) :
              FirstOccurrence(ranked[k]) < FirstOccurrence(ranked[k + 1])
        /\ \A f \in EligibleFormatted \ Range(ranked) :
              \A k \in 1..Len(ranked) : FirstOccurrence(ranked[k]) < FirstOccurrence(f)

\* matches A, B, C in index order, C being the query's topic: phase 1 gives [A, B]
C9_Witness ==
    /\ pc = "rt_collect"
    /\ query = <<"bjt", " ", "amp">>
    /\ results = << [topic |-> <<"diode">>], [topic |-> <<"scr">>],
                    [topic |-> <<"Bjt", " ", "amp">>] >>
    /\ ranked = << <<"Diode">>, <<"Scr">> >>

\* the formatted topics of the batch (of the matches that carry a topic) that
\* are not the query, case-insensitively
Phase2Candidates ==
    { f \in { FormatTopic(t) : t \in TopicSet(results) } : Lower(f) # Lower(query) }

-----------------------------------------------------------------------------
(* explain and recommend_api *)

MaxApiMatches == 1   \* longest match list the index returns within a request

DigitTokens == <<"0", "1", "2", "3", "4", "5", "6", "7", "8", "9">>

IsDigit(t) == \E d \in 1..10 : DigitTokens[d] = t

DigitVal(t) == (CHOOSE d \in 1..10 : DigitTokens[d] = t) - 1

RECURSIVE DigitsValue(_)
DigitsValue(ds) ==
    IF ds = <<>> THEN 0
    ELSE 10 * DigitsValue(SubSeq(ds, 1, Len(ds) - 1)) + DigitVal(ds[Len(ds)])

\* int(v) succeeds: an int, or a string holding an optionally signed
\* decimal numeral, surrounding whitespace allowed
IntAccepts(v) ==
    \/ v.type = "int"
    \/ /\ v.type = "str"
       /\ LET t  == Strip(v.val)
              ds == IF t # <<>> /\ Head(t) \in {"-", "+"} THEN Tail(t) ELSE t
          IN  ds # <<>> /\ \A i \in 1..Len(ds) : IsDigit(ds[i])

\* int(v), where it succeeds
IntValue(v) ==
    IF v.type = "int" THEN v.val
    ELSE LET t == Strip(v.val)
         IN  IF Head(t) = "-" THEN -DigitsValue(Tail(t))
             ELSE IF Head(t) = "+" THEN DigitsValue(Tail(t))
             ELSE DigitsValue(t)

\* JSON bodies posted to /recommend
ApiRequests ==
    { [topic |-> Str(<<"bjt", " ", "amp">>)],
      [topic |-> Str(<<" ", "Diode", NL>>), time_minutes |-> PyInt(1)],
      [topic |-> Str(<<"bjt", " ", "amp">>), time_minutes |-> Str(<<" ", "1", "0">>)],
      [topic |-> Str(<<"Diode">>), time_minutes |-> PyInt(0)],
      [topic |-> Str(<<"Diode">>), time_minutes |-> Str(<<"-", "1">>)],
      [topic |-> Str(<<"Diode">>), time_minutes |-> Str(<<"w12">>)],
      [topic |-> Str(<<"Diode">>), time_minutes |-> None],
      [topic |-> Str(<<" ", NL>>), time_minutes |-> PyInt(1)],
      [topic |-> Str(<<>>), time_minutes |-> Str(<<"w12">>)],
      [time_minutes |-> PyInt(1)],
      [topic |-> None, time_minutes |-> PyInt(1)] }

ApiExplainCorpus ==
    { [stage |-> "working", summary |-> Str(<<"Diode", ".">>)],
      [summary |-> Str(<<"Summary", " ", "diode">>)],
      [stage |-> "introduction", summary |-> Str(<<"ujt">>)] }

ApiRelatedCorpus ==
    { [topic |-> <<"diode">>], [topic |-> <<"Bjt", " ", "amp">>],
      [topic |-> <<"scr">>] }

ApiExplainBatches == SeqsUpTo(ApiExplainCorpus, MaxApiMatches)
ApiRelatedBatches ==
    SeqsUpTo(ApiRelatedCorpus, MaxApiMatches) \cup { SubSeq(LongOrder, 1, 9) }

\* the failure answer with the explanation computed so far left in
ErrorResponse_Partial ==
    [ status |-> 500, error |-> "Internal server error",
      explanation |-> explanation, related_topics |-> <<>> ]

\* the answer of the `except Exception` handler
ErrorResponse ==
    [ status |-> 500, error |-> "Internal server error",
      explanation |-> <<>>, related_topics |-> <<>> ]

\* the answer to a request without a topic
TopicRequired ==
    [ status |-> 400, error |-> "Topic is required",
      explanation |-> <<>>, related_topics |-> <<>> ]

\* recommend_api up to its call of explain
ApiHandle ==
    /\ pc = "api_recv"
    /\ LET rawTopic == Get(request, "topic", Str(<<>>))
           rawTime  == Get(request, "time_minutes", PyInt(5))
       IN  IF rawTopic.type # "str"
           THEN /\ pc' = "raised" /\ exc' = "AttributeError"
                /\ UNCHANGED <<query, time_minutes, response>>
           ELSE IF ~IntAccepts(rawTime)
           THEN /\ pc' = "raised"
                /\ exc' = IF rawTime.type = "str" THEN "ValueError" ELSE "TypeError"
                /\ UNCHANGED <<query, time_minutes, response>>
           ELSE IF Strip(rawTopic.val) = <<>>
           THEN /\ pc' = "api_done"
                /\ response' = TopicRequired
                /\ UNCHANGED <<query, time_minutes, exc>>
           ELSE /\ pc' = "ge_embed"
                /\ query' = Strip(rawTopic.val)
                /\ time_minutes' = IntValue(rawTime)
                /\ UNCHANGED <<response, exc>>
    /\ UNCHANGED <<request, geVars, rtVars>>
    /\ UNCHANGED ccVars

\* explain: get_explanation has returned, get_related_topics is called
ExplainCallRelated ==
    /\ pc = "ge_done"
    /\ pc' = "rt_embed"
    /\ UNCHANGED <<query, time_minutes, geVars, rtVars, apiVars, exc>>
    /\ UNCHANGED ccVars

\* explain returns its dict and recommend_api answers with it
ApiRespond ==
    /\ pc = "rt_done"
    /\ response' = [ status |-> 200, topic |-> query, time_minutes |-> time_minutes,
                     explanation |-> explanation, related_topics |-> related ]
    /\ pc' = "api_done"
    /\ UNCHANGED <<query, time_minutes, geVars, rtVars, request, exc>>
    /\ UNCHANGED ccVars

\* the `except Exception` handler of recommend_api
ApiCatch ==
    /\ pc = "raised"
    /\ response' = ErrorResponse
    /\ pc' = "api_done"
    /\ UNCHANGED <<query, time_minutes, geVars, rtVars, request, exc>>
    /\ UNCHANGED ccVars

InitApi ==
    /\ pc = "api_recv"
    /\ request \in ApiRequests
    /\ response = NoResponse
    /\ query = <<>>
    /\ time_minutes = 0
    /\ GEIdle /\ RTIdle /\ CCIdle
    /\ exc = "none"

NextApi ==
    \/ ApiHandle
    \/ GEEmbed
    \/ GEQuery(ApiExplainBatches)
    \/ GEBucket
    \/ GEBucketDone
    \/ GEStageSkip
    \/ GEStageEmit
    \/ GEReturn
    \/ ExplainCallRelated
    \/ RTEmbed
    \/ RTQuery(ApiRelatedBatches)
    \/ RTPhase1
    \/ RTPhase1Done
    \/ RTCollect
    \/ RTPhase2
    \/ RTPhase2Done
    \/ RTReturn
    \/ ApiRespond
    \/ ApiCatch

SpecApi == InitApi /\ [][NextApi]_vars

Spec == SpecApi

-----------------------------------------------------------------------------
(* Properties of explain and recommend_api, checked under SpecApi *)

RankerRuns == pc \in {"rt_phase1", "rt_collect", "rt_phase2", "rt_return", "rt_done"}

\* C6: when both index queries of explain return zero matches, no error is
\* raised, the explanation is "<query> is an important electronics topic."
\* and related_topics is the empty list, in explain and in the answer.
C6_ZeroMatches ==
    LET sentence == query \o <<" ", "is", " ", "an", " ", "important", " ",
                              "electronics", " ", "topic", ".">>
    IN  /\ (RankerRuns /\ metadatas = <<>> /\ results = <<>>)
              => exc = "none" /\ explanation = sentence /\ ranked = <<>>
        /\ (pc = "api_done" /\ response.status = 200
                /\ metadatas = <<>> /\ results = <<>>)
              => /\ exc = "none"
                 /\ response.explanation = sentence
                 /\ response.related_topics = <<>>

\* the request {"topic": "bjt amp"} (time_minutes defaults to 5), no match at all
C6_Witness ==
    /\ pc = "api_done" /\ response.status = 200
    /\ metadatas = <<>> /\ results = <<>>
    /\ time_minutes = 5
    /\ response.explanation =
           <<"bjt", " ", "amp", " ", "is", " ", "an", " ", "important", " ",
             "electronics", " ", "topic", ".">>

\* C7: once the embedding call or the index query has failed, in the
\* explanation step or in the related-topics step, nothing of explain runs
\* any more (no retry, no fallback), and the request is answered with the
\* generic failure response, whose explanation and related_topics are empty.
C7_FailurePropagates ==
    /\ exc # "none" => pc \in {"raised", "api_done"}
    /\ (pc = "api_done" /\ exc # "none")
          => /\ response.status = 500
             /\ response.error = "Internal server error"
             /\ response.explanation = <<>>
             /\ response.related_topics = <<>>

\* the index query of the related-topics step failed after an explanation
\* with a section had been computed
C7_Witness ==
    /\ pc = "api_done"
    /\ exc = "index query failed"
    /\ output # <<>> /\ explanation # NoText
    /\ response.status = 500 /\ response.explanation = <<>>

\* explain has just been invoked by recommend_api
ExplainInvoked == pc = "ge_embed"

\* C11: recommend_api only ever invokes explain with time_minutes coerced to
\* a positive integer: whatever the request body, explain is never called
\* with time_minutes <= 0.
C11_CallerPassesPositive ==
    ExplainInvoked => time_minutes > 0

-----------------------------------------------------------------------------
(* Several requests at once: each thread of the server runs its own call of
   get_related_topics. The locals of a call live in cc[r]; the module-level
   names of recommender.py (the index handle `collection`, the generator
   behind random.shuffle) are the same objects for every call. *)

CCQueries == { <<"Diode">> }

\* what the index answers to a request
CCBatches ==
    { <<>>,
      << [topic |-> <<"bjt">>], [topic |-> <<>>] >>,
      << [topic |-> <<"diode">>], [topic |-> <<"scr">>], [topic |-> <<"led">>],
         [topic |-> <<"scr">>] >> }

\* the relevance loop of get_related_topics, from match i on
RECURSIVE Phase1Loop(_, _, _, _, _)
Phase1Loop(res, i, rk, sn, q) ==
    IF i > Len(res) THEN [ ranked |-> rk, seen |-> sn ]
    ELSE LET topic       == Get(res[i], "topic", <<>>)
             topic_clean == FormatTopic(topic)
         IN  IF topic = <<>> \/ SameAsQuery(topic_clean, q)
             THEN Phase1Loop(res, i + 1, rk, sn, q)
             ELSE LET rk2 == IF topic_clean \notin sn
                             THEN Append(rk, topic_clean) ELSE rk
                      sn2 == sn \cup {topic_clean}
                  IN  IF Phase1Break(Len(rk2))
                      THEN [ ranked |-> rk2, seen |-> sn2 ]
                      ELSE Phase1Loop(res, i + 1, rk2, sn2, q)

\* the exploration loop of get_related_topics over the shuffled list ts,
\* from its element i on
RECURSIVE Phase2Loop(_, _, _, _, _)
Phase2Loop(ts, i, rk, sn, q) ==
    IF i > Len(ts) THEN rk
    ELSE LET t_clean == FormatTopic(ts[i])
             add     == t_clean \notin sn /\ ~SameAsQuery(t_clean, q)
             rk2     == IF add THEN Append(rk, t_clean) ELSE rk
             sn2     == IF add THEN sn \cup {t_clean} ELSE sn
         IN  IF Phase2Break(Len(rk2)) THEN rk2
             ELSE Phase2Loop(ts, i + 1, rk2, sn2, q)

\* the lists list(set(...)) may build from a set: every order of its elements
ListsOf(S) ==
    { f \in [ 1..Cardinality(S) -> S ] : \A t \in S : \E k \in DOMAIN f : f[k] = t }

\* x[i], x[j] = x[j], x[i] (positions counted from 0, as the code does)
Swap(x, i, j) ==
    [ k \in DOMAIN x |-> IF k = i + 1 THEN x[j + 1]
                         ELSE IF k = j + 1 THEN x[i + 1] ELSE x[k] ]

\* explain calls get_related_topics(query)
CCCall(r) ==
    /\ cc[r].pc = "idle"
    /\ \E q \in CCQueries :
          cc' = [ cc EXCEPT ![r] = [ @ EXCEPT !.pc = "query", !.query = q ] ]
    /\ UNCHANGED <<rng, soloVars>>

\* embed_query and collection.query: a batch, or an exception that ends the call
CCQuery(r) ==
    /\ cc[r].pc = "query"
    /\ \/ \E b \in CCBatches :
             cc' = [ cc EXCEPT ![r] = [ @ EXCEPT !.pc = "phase1", !.results = b,
                                                 !.ranked = <<>>, !.seen = {} ] ]
       \/ cc' = [ cc EXCEPT ![r] = [ @ EXCEPT !.pc = "raised" ] ]
    /\ UNCHANGED <<rng, soloVars>>

\* the relevance loop: it reads and writes locals only
CCPhase1(r) ==
    /\ cc[r].pc = "phase1"
    /\ LET p1 == Phase1Loop(cc[r].results, 1, cc[r].ranked, cc[r].seen, cc[r].query)
       IN  cc' = [ cc EXCEPT ![r] = [ @ EXCEPT !.pc = "collect",
                                               !.ranked = p1.ranked,
                                               !.seen = p1.seen ] ]
    /\ UNCHANGED <<rng, soloVars>>

\* all_topics = list(set(...)), and random.shuffle starts at the last position
CCCollect(r) ==
    /\ cc[r].pc = "collect"
    /\ \E l \in ListsOf(TopicSet(cc[r].results)) :
          cc' = [ cc EXCEPT ![r] = [ @ EXCEPT !.pc = "shuffle", !.all_topics = l,
                                              !.i = Len(l) - 1 ] ]
    /\ UNCHANGED <<rng, soloVars>>

\* one iteration of random.shuffle: j is drawn from the generator of the
\* random module, which advances; the seed being unknown, j is any of 0..i
CCShuffleStep(r) ==
    /\ cc[r].pc = "shuffle"
    /\ cc[r].i >= 1
    /\ \E j \in 0..cc[r].i :
          cc' = [ cc EXCEPT ![r] = [ @ EXCEPT !.all_topics = Swap(@, cc[r].i, j),
                                              !.i = @ - 1 ] ]
    /\ rng' = rng + 1
    /\ UNCHANGED soloVars

\* random.shuffle returns, and the exploration loop runs on locals only
CCPhase2(r) ==
    /\ cc[r].pc = "shuffle"
    /\ cc[r].i < 1
    /\ cc' = [ cc EXCEPT ![r] = [ @ EXCEPT
                  !.pc = "done",
                  !.ranked = Phase2Loop(cc[r].all_topics, 1, cc[r].ranked,
                                        cc[r].seen, cc[r].query) ] ]
    /\ UNCHANGED <<rng, soloVars>>

InitConcurrent ==
    /\ pc = "idle"
    /\ query = <<>>
    /\ time_minutes = 0
    /\ GEIdle /\ RTIdle /\ ApiIdle /\ CCIdle
    /\ exc = "none"

NextConcurrent ==
    \/ \E r \in Requests : CCCall(r)
    \/ \E r \in Requests : CCQuery(r)
    \/ \E r \in Requests : CCPhase1(r)
    \/ \E r \in Requests : CCCollect(r)
    \/ \E r \in Requests : CCShuffleStep(r)
    \/ \E r \in Requests : CCPhase2(r)

SpecConcurrent == InitConcurrent /\ [][NextConcurrent]_vars

\* request o is inside random.shuffle: it has drawn and will draw again
MidShuffle(o) ==
    /\ cc[o].pc = "shuffle"
    /\ cc[o].i >= 1
    /\ cc[o].i < Len(cc[o].all_topics) - 1

\* C12: under any interleaving of concurrent requests, nothing but the
\* read-only index handle is shared: a step of one request writes no local
\* of another request (buckets, seen sets, counters, result list), and the
\* randomness of the exploration shuffle is owned by the request too, so
\* between two draws of one request's shuffle no other request changes the
\* generator the draws come from.
C12_RequestOwnedState ==
    [][ \A r \in Requests : cc'[r] # cc[r] =>
            \A o \in Requests \ {r} :
                /\ cc'[o] = cc[o]
                /\ MidShuffle(o) => rng' = rng ]_vars

-----------------------------------------------------------------------------
(* Further properties of get_explanation, checked under SpecExplain *)

\* the words of the lines of the first n emitted sections
RECURSIVE WordsThrough(_, _)
WordsThrough(out, n) ==
    IF n = 0 THEN 0
    ELSE WordsThrough(out, n - 1)
             + SumWords(out[n].paragraph, Len(out[n].paragraph))

\* C13: once the running total of words across all stages has reached
\* max_words, no further stage is processed: every emitted section but the
\* last left the total below max_words, and the stage loop goes on to another
\* stage after an emitted section only while the total is below max_words.
C13_StopsAtGlobalBudget ==
    InAssembler =>
        /\ \A n \in 1..(Len(output) - 1) :
              WordsThrough(output, n) < time_minutes * 120
        /\ (pc = "ge_stage" /\ output # <<>>) => used_words < time_minutes * 120

\* time_minutes = 1: two sections bring the total to 120 or more, and a later
\* stage whose bucket holds a line is left out
C13_Witness ==
    /\ pc = "ge_done" /\ time_minutes = 1
    /\ Len(output) = 2
    /\ WordsThrough(output, 1) < 120
    /\ WordsThrough(output, 2) >= 120
    /\ sections["general"] # <<>>
    /\ output[2].stage # "general"

\* the value clean_text is applied to for match j
RawSummary(j) == Get(metadatas[j], "summary", Str(<<>>))

\* C14: clean_text returns the empty string for None, for any other
\* non-text value and for the empty string; and a match whose summary is
\* missing or cleans to the empty string is skipped. At every point of the
\* bucketing loop and at its end: the dedup keys are exactly the keys of the
\* processed matches with a non-empty cleaned summary, no bucket holds an
\* empty string, and the buckets hold one entry for each processed match
\* that is the first with its key. (Nothing writes the buckets or the keys
\* after the loop.)
C14_EmptySummarySkipped ==
    pc = "ge_bucket" =>
        LET sm    == [ j \in 1..(mi - 1) |-> clean_text(RawSummary(j)) ]
            key   == [ j \in 1..(mi - 1) |-> normalize(sm[j]) ]
            first == { j \in 1..(mi - 1) :
                         /\ sm[j] # <<>>
                         /\ \A i \in 1..(j - 1) : sm[i] = <<>> \/ key[i] # key[j] }
        IN  /\ \A j \in 1..(mi - 1) :
                  (RawSummary(j).type # "str" \/ RawSummary(j).val = <<>>)
                      => sm[j] = <<>>
            /\ seen = { key[j] : j \in { i \in 1..(mi - 1) : sm[i] # <<>> } }
            /\ \A e \in BucketEntries : sections[e[1]][e[2]] # <<>>
            /\ Cardinality(BucketEntries) = Cardinality(first)

\* the end of the bucketing loop over a batch of a non-text summary, a text
\* that cleans to nothing and one summary that stays: one key, one entry
C14_Witness ==
    /\ pc = "ge_bucket"
    /\ Len(metadatas) = 3 /\ mi = 4
    /\ \E j \in 1..3 : RawSummary(j).type # "str"
    /\ \E j \in 1..3 : RawSummary(j).type = "str" /\ RawSummary(j).val # <<>>
                            /\ SummaryOf(j) = <<>>
    /\ Cardinality(seen) = 1
    /\ Cardinality(BucketEntries) = 1

-----------------------------------------------------------------------------
(* Further properties of get_related_topics, checked under SpecRelated *)

\* the exploration pass has started
InPhase2 == pc \in {"rt_phase2", "rt_return", "rt_done"}

\* the list the relevance pass builds for the current query and batch
RelevanceList == Phase1Loop(results, 1, <<>>, {}, query).ranked

\* C15: for a fixed query and batch the first six positions of the result
\* are the same whatever the shuffle: the list begins with the entries of the
\* relevance pass, the exploration pass adds nothing when the relevance pass
\* ended with fewer than 6 entries, and what it adds sits at positions 7 to 12.
C15_ExplorationAfterFirstSix ==
    InPhase2 =>
        /\ Len(ranked) >= Len(RelevanceList)
        /\ SubSeq(ranked, 1, Len(RelevanceList)) = RelevanceList
        /\ Len(RelevanceList) < MAX_RELATED_TILES \div 2 => ranked = RelevanceList
        /\ \A k \in (Len(RelevanceList) + 1)..Len(ranked) :
              k > MAX_RELATED_TILES \div 2 /\ k <= MAX_RELATED_TILES

\* C16: a match whose topic is the empty string contributes no entry: every
\* entry of the list, from either pass, is a non-empty formatted topic name.
C16_NoEmptyEntry ==
    InRanker => \A k \in 1..Len(ranked) : ranked[k] # <<>>

-----------------------------------------------------------------------------
(* get_explanation with a word budget of zero or less, under SpecExplain *)

\* some match has a non-empty cleaned summary in a known stage
HasKnownStageSummary ==
    \E j \in 1..Len(metadatas) :
        MetaStage(metadatas[j]) \in KnownStages /\ SummaryOf(j) # <<>>

\* the known stages whose bucket holds a line
FilledStages == { k \in 1..Len(STAGE_ORDER) : sections[STAGE_ORDER[k]] # <<>> }

\* C17: with time_minutes <= 0 and at least one match that has a non-empty
\* cleaned summary in a known stage, the call returns normally and its
\* output is exactly one section of exactly one line: the first summary of
\* the first non-empty bucket in canonical stage order.
C17_NonPositiveBudgetOneLine ==
    (pc = "ge_done" /\ time_minutes <= 0 /\ HasKnownStageSummary)
        => /\ exc = "none"
           /\ Len(output) = 1
           /\ Len(output[1].paragraph) = 1
           /\ FilledStages # {}
           /\ \A k \in FilledStages :
                 (\A l \in FilledStages : k <= l)
                     => /\ output[1].stage = STAGE_ORDER[k]
                        /\ output[1].paragraph[1] = sections[STAGE_ORDER[k]][1]
           /\ explanation = Strip(JoinWith(SectionStrings(output[1]), <<NL>>))

====
